---- MODULE Spec2Model ----
(***************************************************************************)
(* Model of the reconciliation engine of src/utils.py:                     *)
(* perform_reconciliation, aggregate_dataframes, create_composite_key and  *)
(* identify_mismatches, with the pandas operations they call (copy,        *)
(* groupby/agg, merge, fillna/astype(str), iloc) modelled by what they do  *)
(* to the tables.                                                          *)
(*                                                                         *)
(* A cell is a tagged scalar [t, n, s]: t is "null" (NaN/None), "int"      *)
(* (an int64 cell), "float" (a float64 cell of integral value n) or "str". *)
(* A DataFrame is [columns |-> set of names, rows |-> sequence of rows],   *)
(* a row being a function from the column names to cells; position i of    *)
(* the sequence is pandas position i-1.  A dict is the sequence of its     *)
(* <<key, value>> items in insertion order.                                *)
(***************************************************************************)
EXTENDS Integers, Sequences, FiniteSets, TLC

VARIABLES df1, df2, column_mappings, key_columns, use_aggregation,
          agg_columns_file1, agg_columns_file2, agg_functions,
          pc, locals, result, exception

\* st.session_state of the page (src/app.py): the dict objects it refers to,
\* by identity, and its entries column_mappings, key_columns,
\* mapping_presets and current_preset_name, and the values its mapping
\* selectboxes hold.  preset_saved records, for every preset, the mappings
\* and key columns it was stored with.
VARIABLES heap, session_column_mappings, session_key_columns,
          mapping_presets, current_preset_name, mapping_widgets, preset_saved

inputs == <<df1, df2, column_mappings, key_columns, use_aggregation,
            agg_columns_file1, agg_columns_file2, agg_functions>>

vars == <<df1, df2, column_mappings, key_columns, use_aggregation,
          agg_columns_file1, agg_columns_file2, agg_functions,
          pc, locals, result, exception,
          heap, session_column_mappings, session_key_columns,
          mapping_presets, current_preset_name, mapping_widgets, preset_saved>>

engine == <<df1, df2, column_mappings, key_columns, use_aggregation,
            agg_columns_file1, agg_columns_file2, agg_functions,
            pc, locals, result, exception>>

session == <<heap, session_column_mappings, session_key_columns,
             mapping_presets, current_preset_name, mapping_widgets,
             preset_saved>>

(***************************************************************************)
(* Bounds of the explored inputs.                                          *)
(***************************************************************************)
MaxRows == 2

(***************************************************************************)
(* Cells.                                                                  *)
(***************************************************************************)
Null == [t |-> "null", n |-> 0, s |-> ""]

IntV(k) == [t |-> "int", n |-> k, s |-> ""]

FloatV(k) == [t |-> "float", n |-> k, s |-> ""]

StrV(x) == [t |-> "str", n |-> 0, s |-> x]

IsNull(v) == v.t = "null"

Digit(d) ==
    CASE d = 0 -> "0" [] d = 1 -> "1" [] d = 2 -> "2" [] d = 3 -> "3"
      [] d = 4 -> "4" [] d = 5 -> "5" [] d = 6 -> "6" [] d = 7 -> "7"
      [] d = 8 -> "8" [] d = 9 -> "9"

RECURSIVE IntStr(_)
IntStr(k) ==
    IF k < 0 THEN "-" \o IntStr(0 - k)
    ELSE IF k < 10 THEN Digit(k)
    ELSE IntStr(k \div 10) \o Digit(k % 10)

\* astype(str) without the fillna(''): a null prints as "nan"
FillnaAstypeStr_NoFillna(v) ==
    CASE v.t = "null"  -> "nan"
      [] v.t = "int"   -> IntStr(v.n)
      [] v.t = "float" -> IntStr(v.n) \o ".0"
      [] v.t = "str"   -> v.s

\* series.fillna('').astype(str), one cell: a null becomes '', an int64 cell
\* prints as its digits, a float64 cell of integral value as "<digits>.0".
FillnaAstypeStr(v) ==
    CASE v.t = "null"  -> ""
      [] v.t = "int"   -> IntStr(v.n)
      [] v.t = "float" -> IntStr(v.n) \o ".0"
      [] v.t = "str"   -> v.s

(***************************************************************************)
(* Sequences and dicts.                                                    *)
(***************************************************************************)
Range(q) == {q[i] : i \in 1..Len(q)}

RECURSIVE Flatten(_)
Flatten(qq) == IF qq = <<>> THEN <<>> ELSE Head(qq) \o Flatten(Tail(qq))

EmptyDict == <<>>

DictKeys(d) == [i \in 1..Len(d) |-> d[i][1]]

DictHas(d, k) == \E i \in 1..Len(d) : d[i][1] = k

DictGet(d, k) == d[CHOOSE i \in 1..Len(d) : d[i][1] = k][2]

EmptyFrame == [columns |-> {}, rows |-> <<>>]

\* df[col] = values: one more column on every row
WithColumn(df, col, values) ==
    [columns |-> df.columns \cup {col},
     rows |-> [i \in 1..Len(df.rows) |->
                 [c \in df.columns \cup {col} |->
                     IF c = col THEN values[i] ELSE df.rows[i][c]]]]

(***************************************************************************)
(* create_composite_key  (src/utils.py 145-169)                            *)
(***************************************************************************)
RECURSIVE Join(_, _)
\* sep.join(parts)
Join(sep, parts) ==
    IF parts = <<>> THEN ""
    ELSE IF Len(parts) = 1 THEN parts[1]
    ELSE parts[1] \o sep \o Join(sep, Tail(parts))

\* KeyParts with the listed columns taken last to first
KeyParts_Reversed(df, row, key_cols) ==
    [k \in 1..Len(key_cols) |->
        IF key_cols[Len(key_cols) + 1 - k] \in df.columns
        THEN FillnaAstypeStr(row[key_cols[Len(key_cols) + 1 - k]])
        ELSE ""]

\* key_parts of one row: the stringified cell of every listed column, '' for
\* a listed column the frame does not have
KeyParts(df, row, key_cols) ==
    [k \in 1..Len(key_cols) |->
        IF key_cols[k] \in df.columns
        THEN FillnaAstypeStr(row[key_cols[k]])
        ELSE ""]

\* if not key_columns: raise ValueError("No key columns provided")
CompositeKeyRaises(key_cols) == key_cols = <<>>

\* the Series of keys, one per row, when the list of columns is not empty
create_composite_key(df, key_cols) ==
    [i \in 1..Len(df.rows) |-> Join("|", KeyParts(df, df.rows[i], key_cols))]

(***************************************************************************)
(* aggregate_dataframes  (src/utils.py 97-143)                             *)
(***************************************************************************)
\* the strings of the explored inputs in Python's str order
StringOrder == <<"", "1", "a", "b">>

StrRank(x) == CHOOSE i \in 1..Len(StringOrder) : StringOrder[i] = x

\* order of two non-null cells of one column
CellLess(a, b) ==
    IF a.t = "str" /\ b.t = "str" THEN StrRank(a.s) < StrRank(b.s)
    ELSE a.n < b.n

TupleLess(a, b) ==
    \E i \in 1..Len(a) :
        /\ \A j \in 1..(i - 1) : a[j] = b[j]
        /\ CellLess(a[i], b[i])

RECURSIVE SortedSeq(_)
SortedSeq(S) ==
    IF S = {} THEN <<>>
    ELSE LET m == CHOOSE x \in S : \A y \in S : ~TupleLess(y, x)
         IN  <<m>> \o SortedSeq(S \ {m})

RECURSIVE SumN(_)
SumN(cells) == IF cells = <<>> THEN 0 ELSE Head(cells).n + SumN(Tail(cells))

NumCell(cells, k) ==
    IF \A i \in 1..Len(cells) : cells[i].t = "int" THEN IntV(k) ELSE FloatV(k)

\* one reduction of groupby(...).agg over the cells of a group; nulls are
\* skipped.  sum, count, min and max of numeric cells are modelled.
Reduce(func, cells) ==
    LET vals == SelectSeq(cells, LAMBDA v : ~IsNull(v))
        ns   == {vals[i].n : i \in 1..Len(vals)}
    IN  CASE func = "count" -> IntV(Len(vals))
          [] func = "sum"   -> NumCell(vals, SumN(vals))
          [] func = "min"   ->
                IF vals = <<>> THEN Null
                ELSE NumCell(vals, CHOOSE x \in ns : \A y \in ns : x <= y)
          [] func = "max"   ->
                IF vals = <<>> THEN Null
                ELSE NumCell(vals, CHOOSE x \in ns : \A y \in ns : x >= y)

GroupKey(row, by) == [k \in 1..Len(by) |-> row[by[k]]]

\* the group keys groupby keeps: dropna=True (the default) drops every row
\* with a null in a grouping column; sort=True orders the groups by key
GroupKeys(df, by) ==
    SortedSeq({g \in {GroupKey(df.rows[i], by) : i \in 1..Len(df.rows)} :
                  \A k \in 1..Len(g) : ~IsNull(g[k])})

\* df.groupby(by).agg(agg_dict).reset_index()
GroupByAgg(df, by, agg_dict) ==
    LET keys == GroupKeys(df, by)
        cols == Range(by) \cup Range(DictKeys(agg_dict))
        members(g) == SelectSeq(df.rows, LAMBDA r : GroupKey(r, by) = g)
        cellsOf(g, c) == [i \in 1..Len(members(g)) |-> members(g)[i][c]]
    IN  [columns |-> cols,
         rows |-> [i \in 1..Len(keys) |->
                    [c \in cols |->
                        IF c \in Range(by)
                        THEN keys[i][CHOOSE k \in 1..Len(by) : by[k] = c]
                        ELSE Reduce(DictGet(agg_dict, c), cellsOf(keys[i], c))]]]

\* agg_dict_df1: the functions of the columns df1 has and does not group by
AggDict1(d1, ac1, af) ==
    SelectSeq(af, LAMBDA p : p[1] \in d1.columns /\ p[1] \notin Range(ac1))

\* agg_dict_df2: the same functions, keyed by the mapped File 2 column
AggDict2(d2, cm, ac2, af) ==
    LET kept == SelectSeq(af, LAMBDA p :
                    /\ DictHas(cm, p[1])
                    /\ DictGet(cm, p[1]) \in d2.columns
                    /\ DictGet(cm, p[1]) \notin Range(ac2))
    IN  [i \in 1..Len(kept) |-> <<DictGet(cm, kept[i][1]), kept[i][2]>>]

\* updated_key_columns: the group-by columns of File 1 that have a mapping
UpdatedKeyColumns(cm, ac1) ==
    LET kept == SelectSeq(ac1, LAMBDA c : DictHas(cm, c))
    IN  [i \in 1..Len(kept) |-> <<kept[i], DictGet(cm, kept[i])>>]

\* UpdatedColumnMappings without the filter
UpdatedColumnMappings_Unfiltered(cm, aggregated_df1, aggregated_df2) == cm

\* updated_column_mappings: the mappings whose two columns are still there
UpdatedColumnMappings(cm, aggregated_df1, aggregated_df2) ==
    SelectSeq(cm, LAMBDA p : /\ p[1] \in aggregated_df1.columns
                             /\ p[2] \in aggregated_df2.columns)

\* the returned tuple, under the names perform_reconciliation assigns it to
AggregatedReturn(cm, ac1, aggregated_df1, aggregated_df2) ==
    [df1_copy |-> aggregated_df1,
     df2_copy |-> aggregated_df2,
     column_mappings |-> UpdatedColumnMappings(cm, aggregated_df1, aggregated_df2),
     key_columns |-> UpdatedKeyColumns(cm, ac1)]

aggregate_dataframes(d1, d2, cm, kc, ac1, ac2, af) ==
    AggregatedReturn(cm, ac1,
                     GroupByAgg(d1, ac1, AggDict1(d1, ac1, af)),
                     GroupByAgg(d2, ac2, AggDict2(d2, cm, ac2, af)))

(***************************************************************************)
(* pd.merge(df1_copy, df2_mapped, on='_composite_key', how='outer',        *)
(*          suffixes=('_file1', '_file2'), indicator=True)                 *)
(* (src/utils.py 54-58)                                                    *)
(***************************************************************************)
\* A column that gets NaN in some row of the result cannot stay int64:
\* pandas stores it as float64, so its integers become floats in every row.
Upcast(v, column_has_nan) ==
    IF column_has_nan /\ v.t = "int" THEN FloatV(v.n) ELSE v

\* LeftOnly as a how='right' join would have it: no left row is kept alone
LeftOnly_RightJoin(left, right) == {}

\* the positions of the left rows whose key no right row has
LeftOnly(left, right) ==
    {i \in 1..Len(left.rows) :
        \A j \in 1..Len(right.rows) :
            right.rows[j]["_composite_key"] /= left.rows[i]["_composite_key"]}

\* the positions of the right rows whose key no left row has
RightOnly(left, right) ==
    {j \in 1..Len(right.rows) :
        \A i \in 1..Len(left.rows) :
            left.rows[i]["_composite_key"] /= right.rows[j]["_composite_key"]}

\* Partners as a join that keeps one right row per key would have it
Partners_FirstOnly(left, right, i) ==
    LET all == SelectSeq([j \in 1..Len(right.rows) |-> j],
                         LAMBDA j : right.rows[j]["_composite_key"]
                                        = left.rows[i]["_composite_key"])
    IN  IF all = <<>> THEN <<>> ELSE <<all[1]>>

\* the positions of the right rows that join left row i: all of equal key
Partners(left, right, i) ==
    SelectSeq([j \in 1..Len(right.rows) |-> j],
              LAMBDA j : right.rows[j]["_composite_key"]
                             = left.rows[i]["_composite_key"])

\* The rows of the merge: every (left row, right row) pair of equal key, a
\* left row without partner once with the right columns NaN, a right row
\* without partner once with the left columns NaN.  Columns the two frames
\* share, other than the key, take the suffixes.  (pandas orders the result
\* by key; the order of the rows is not modelled.)
merge(left, right) ==
    LET nl == Len(left.rows)
        nr == Len(right.rows)
        L == left.columns \ {"_composite_key"}
        R == right.columns \ {"_composite_key"}
        lname(c) == IF c \in R THEN c \o "_file1" ELSE c
        rname(c) == IF c \in L THEN c \o "_file2" ELSE c
        cols == {"_composite_key", "_merge"}
                  \cup {lname(c) : c \in L} \cup {rname(c) : c \in R}
        left_only  == LeftOnly(left, right)
        right_only == RightOnly(left, right)
        lcell(i, c) == IF i = 0 THEN Null
                       ELSE Upcast(left.rows[i][c], right_only /= {})
        rcell(j, c) == IF j = 0 THEN Null
                       ELSE Upcast(right.rows[j][c], left_only /= {})
        row(i, j) ==
            [m \in cols |->
                IF m = "_composite_key"
                THEN (IF i = 0 THEN right.rows[j][m] ELSE left.rows[i][m])
                ELSE IF m = "_merge"
                THEN StrV(IF i = 0 THEN "right_only"
                          ELSE IF j = 0 THEN "left_only" ELSE "both")
                ELSE IF \E c \in L : lname(c) = m
                THEN lcell(i, CHOOSE c \in L : lname(c) = m)
                ELSE rcell(j, CHOOSE c \in R : rname(c) = m)]
        of_left(i) ==
            IF i \in left_only THEN <<row(i, 0)>>
            ELSE [k \in 1..Len(Partners(left, right, i)) |->
                     row(i, Partners(left, right, i)[k])]
        of_right == SelectSeq([j \in 1..nr |-> j], LAMBDA j : j \in right_only)
    IN  [columns |-> cols,
         rows |-> Flatten([i \in 1..nl |-> of_left(i)])
                    \o [k \in 1..Len(of_right) |-> row(0, of_right[k])]]

\* Indicated without the test of the indicator
Indicated_Unfiltered(merged, which) == merged

\* merged[merged['_merge'] == which]
Indicated(merged, which) ==
    [columns |-> merged.columns,
     rows |-> SelectSeq(merged.rows, LAMBDA r : r["_merge"] = StrV(which))]

(***************************************************************************)
(* identify_mismatches  (src/utils.py 171-229)                             *)
(***************************************************************************)
\* the names after the underscore of the names that begin with one
UnderscoreTails == {"rec_id_1", "rec_id_2", "composite_key", "merge", "flag"}

\* col.startswith('_')
StartsWithUnderscore(col) == \E x \in UnderscoreTails : col = "_" \o x

\* the columns the loop does not skip
ComparedColumns(matched_df, columns_to_compare) ==
    {col \in Range(columns_to_compare) :
        ~(\/ StartsWithUnderscore(col)
          \/ (col \o "_file1") \notin matched_df.columns
          \/ (col \o "_file2") \notin matched_df.columns)}

\* mismatch_mask of one row for one column
MismatchMask(row, col) ==
    FillnaAstypeStr(row[col \o "_file1"]) /= FillnaAstypeStr(row[col \o "_file2"])

\* has_mismatch of one row after the loop
HasMismatch(matched_df, columns_to_compare, row) ==
    \E col \in ComparedColumns(matched_df, columns_to_compare) :
        MismatchMask(row, col)

\* DiffText with the two sides exchanged
DiffText_Swapped(row, col) ==
    "File1: " \o FillnaAstypeStr(row[col \o "_file2"])
        \o " | File2: " \o FillnaAstypeStr(row[col \o "_file1"])

\* the text written into <col>_diff where the mask holds
DiffText(row, col) ==
    "File1: " \o FillnaAstypeStr(row[col \o "_file1"])
        \o " | File2: " \o FillnaAstypeStr(row[col \o "_file2"])

\* DiffCell without the mask: the text on every row
DiffCell_Unmasked(row, col) == StrV(DiffText(row, col))

\* the cell of result_df[<col>_diff] of one row: None, overwritten by the
\* text where the mask holds
DiffCell(row, col) ==
    IF MismatchMask(row, col) THEN StrV(DiffText(row, col)) ELSE Null

\* MismatchedRows collected column by column: a row once per differing column
MismatchedRows_PerColumn(matched_df, columns_to_compare) ==
    LET compared == SelectSeq(columns_to_compare,
                        LAMBDA c : c \in ComparedColumns(matched_df, columns_to_compare))
    IN  Flatten([k \in 1..Len(compared) |->
                    SelectSeq(matched_df.rows,
                              LAMBDA r : MismatchMask(r, compared[k]))])

\* the rows result_df[has_mismatch] keeps: each row of matched_df with a
\* mismatch, once, in the order of matched_df
MismatchedRows(matched_df, columns_to_compare) ==
    SelectSeq(matched_df.rows,
              LAMBDA r : HasMismatch(matched_df, columns_to_compare, r))

\* cols_to_keep before the filter to existing columns
ColsToKeep(columns_to_compare) ==
    {"_composite_key"} \cup
    UNION {{col \o "_file1", col \o "_file2", col \o "_diff"} :
             col \in {x \in Range(columns_to_compare) : ~StartsWithUnderscore(x)}}

identify_mismatches(matched_df, columns_to_compare) ==
    LET compared == ComparedColumns(matched_df, columns_to_compare)
        diffcol == {col \o "_diff" : col \in compared}
        \* result_df: matched_df with one <col>_diff column per compared column
        result_row(r) ==
            [c \in matched_df.columns \cup diffcol |->
                IF c \in matched_df.columns THEN r[c]
                ELSE DiffCell(r, CHOOSE x \in compared : x \o "_diff" = c)]
        hit == MismatchedRows(matched_df, columns_to_compare)
        cols_to_keep == ColsToKeep(columns_to_compare)
                          \cap (matched_df.columns \cup diffcol)
    IN  IF hit = <<>> THEN EmptyFrame
        ELSE [columns |-> cols_to_keep,
              rows |-> [i \in 1..Len(hit) |->
                          [c \in cols_to_keep |-> result_row(hit[i])[c]]]]

(***************************************************************************)
(* perform_reconciliation  (src/utils.py 4-95)                             *)
(***************************************************************************)
\* AggregationApplies by the flag alone
AggregationApplies_FlagOnly(ua, ac1, ac2, af) == ua

\* the condition of the aggregation branch: every operand must be truthy
AggregationApplies(ua, ac1, ac2, af) ==
    ua /\ ac1 /= <<>> /\ ac2 /= <<>> /\ af /= EmptyDict

\* df2_mapped before the bookkeeping columns: for every mapping whose File 2
\* column exists, that column under its File 1 name
MapColumns(d2, cm) ==
    LET cols == {cm[i][1] : i \in {k \in 1..Len(cm) : cm[k][2] \in d2.columns}}
    IN  [columns |-> cols,
         rows |-> [i \in 1..Len(d2.rows) |->
                     [c \in cols |-> d2.rows[i][DictGet(cm, c)]]]]

RecIds(df) == [i \in 1..Len(df.rows) |-> IntV(i - 1)]

\* frame.iloc[rec_ids].reset_index(drop=True): the rows at those positions
Iloc(frame, rec_ids) ==
    [columns |-> frame.columns,
     rows |-> [i \in 1..Len(rec_ids) |-> frame.rows[rec_ids[i].n + 1]]]

RecIdsOf(part, col) == [i \in 1..Len(part.rows) |-> part.rows[i][col]]

\* The locals of the call are a record l that each part of the function
\* extends or overwrites ([new fields] @@ l).

\* lines 21-30: the copies, replaced by the aggregates when the branch runs
CopiesOrAggregates(d1, d2, cm, kc, ua, ac1, ac2, af) ==
    IF AggregationApplies(ua, ac1, ac2, af)
    THEN [aggregated |-> TRUE]
            @@ aggregate_dataframes(d1, d2, cm, kc, ac1, ac2, af)
    ELSE [aggregated |-> FALSE,
          df1_copy |-> d1, df2_copy |-> d2,
          column_mappings |-> cm, key_columns |-> kc]

\* lines 33-41: df2_mapped and the record ids
WithRecIds(l) ==
    [df1_copy |-> WithColumn(l.df1_copy, "_rec_id_1", RecIds(l.df1_copy)),
     df2_mapped |-> WithColumn(MapColumns(l.df2_copy, l.column_mappings),
                               "_rec_id_2", RecIds(l.df2_copy))] @@ l

\* a Series of strings as a column of cells
StrSeries(keys) == [i \in 1..Len(keys) |-> StrV(keys[i])]

\* lines 47-49: the composite keys, both from the File 1 names of the keys
WithCompositeKeys(l, key_cols_file1) ==
    [df1_copy |-> WithColumn(l.df1_copy, "_composite_key",
                     StrSeries(create_composite_key(l.df1_copy, key_cols_file1))),
     df2_mapped |-> WithColumn(l.df2_mapped, "_composite_key",
                     StrSeries(create_composite_key(l.df2_mapped, key_cols_file1)))]
        @@ l

\* lines 54-63: the merge and its three parts
WithMergeParts(l, merged) ==
    [merged |-> merged,
     matched |-> Indicated(merged, "both"),
     only_in_file1 |-> Indicated(merged, "left_only"),
     only_in_file2 |-> Indicated(merged, "right_only")] @@ l

\* lines 68-95: the returned dict; the only-in tables are read from the
\* frames the caller passed, at the record ids of the merge parts
Results(d1, d2, l, mismatched_data) ==
    [stats |-> [matched |-> Len(l.matched.rows) - Len(mismatched_data.rows),
                mismatched |-> Len(mismatched_data.rows),
                only_in_file1 |-> Len(l.only_in_file1.rows),
                only_in_file2 |-> Len(l.only_in_file2.rows)],
     mismatched_data |-> mismatched_data,
     only_in_file1_data |->
         IF l.only_in_file1.rows /= <<>>
         THEN Iloc(d1, RecIdsOf(l.only_in_file1, "_rec_id_1"))
         ELSE EmptyFrame,
     only_in_file2_data |->
         IF l.only_in_file2.rows /= <<>>
         THEN Iloc(d2, RecIdsOf(l.only_in_file2, "_rec_id_2"))
         ELSE EmptyFrame]

\* lines 66-95, the locals being those after the merge
CompareOnward(d1, d2, l) ==
    [raised |-> FALSE,
     locals |-> l,
     result |-> Results(d1, d2, l,
                    identify_mismatches(l.matched, DictKeys(l.column_mappings)))]

\* lines 54-95, the locals being those after the composite keys
MergeOnward(d1, d2, l) ==
    CompareOnward(d1, d2, WithMergeParts(l, merge(l.df1_copy, l.df2_mapped)))

\* raise ValueError("No key columns provided for matching")
NoKeyColumnsError ==
    [type |-> "ValueError", message |-> "No key columns provided for matching"]

\* KeysOnward without the test of key_cols_file1
KeysOnward_Unchecked(d1, d2, l) ==
    MergeOnward(d1, d2, WithCompositeKeys(l, DictKeys(l.key_columns)))

\* lines 44-95, the locals being those after the record ids: the call
\* raises when there is no key column
KeysOnward(d1, d2, l) ==
    IF DictKeys(l.key_columns) = <<>>
    THEN [raised |-> TRUE, exception |-> NoKeyColumnsError, locals |-> l]
    ELSE MergeOnward(d1, d2, WithCompositeKeys(l, DictKeys(l.key_columns)))

\* The whole call: the values of its locals when it returns or raises, and
\* the returned dict.
perform_reconciliation(d1, d2, cm0, kc0, ua, ac1, ac2, af) ==
    KeysOnward(d1, d2,
        WithRecIds(CopiesOrAggregates(d1, d2, cm0, kc0, ua, ac1, ac2, af)))

(***************************************************************************)
(* The explored calls.                                                     *)
(***************************************************************************)
Columns1 == {"id", "amt"}

Columns2 == {"cid", "amount"}

WideColumns1 == {"id", "amt", "qty"}

WideColumns2 == {"cid", "amount", "quantity"}

TextCells == {Null, StrV("a"), StrV("b")}

IntCells == {IntV(1), IntV(2)}

MixedTextCells == {Null, StrV("1"), StrV("")}

AllCells == TextCells \cup IntCells \cup MixedTextCells

\* The kinds of column a name may have: all cells of a column are of one
\* kind (an int64 column has no nulls, a text column may have them).
ColumnKinds(c) ==
    IF c \in {"id", "cid"} THEN {TextCells} ELSE {IntCells, MixedTextCells}

NumericKinds(c) ==
    IF c \in {"id", "cid"} THEN {TextCells} ELSE {IntCells}

WideKinds(c) ==
    IF c \in {"id", "cid"} THEN {{StrV("a"), StrV("b")}} ELSE {IntCells}

\* text columns whose values contain the delimiter of the composite key
DelimitedKinds(c) ==
    IF c \in {"id", "cid"} THEN {{StrV("a"), StrV("a|b")}}
    ELSE {{StrV("b|c"), StrV("c")}}

\* the frames of n rows over cols whose columns are each of one of its kinds
FramesOf(cols, Kinds(_), n) ==
    LET kinds == UNION {Kinds(c) : c \in cols}
    IN  UNION {{[columns |-> cols, rows |-> rs] :
                   rs \in [1..n -> {r \in [cols -> UNION {kind[c] : c \in cols}] :
                                       \A c \in cols : r[c] \in kind[c]}]} :
               kind \in {k \in [cols -> kinds] : \A c \in cols : k[c] \in Kinds(c)}}

Frames(cols, Kinds(_)) == UNION {FramesOf(cols, Kinds, n) : n \in 1..MaxRows}

FullMapping == << <<"id", "cid">>, <<"amt", "amount">> >>

AmtMapping == << <<"amt", "amount">> >>

WideMapping == << <<"id", "cid">>, <<"amt", "amount">>, <<"qty", "quantity">> >>

IdKey == << <<"id", "cid">> >>

\* a value column of the user whose name begins with an underscore
UnderscoreColumns1 == {"id", "_flag"}

UnderscoreColumns2 == {"cid", "flag"}

UnderscoreMapping == << <<"id", "cid">>, <<"_flag", "flag">> >>

\* both columns as the key, id first
FullKey == << <<"id", "cid">>, <<"amt", "amount">> >>

\* amt mapped to a column File 2 does not have
MissingTargetMapping == << <<"id", "cid">>, <<"amt", "total">> >>

NoResult == [stats |-> [matched |-> 0, mismatched |-> 0,
                        only_in_file1 |-> 0, only_in_file2 |-> 0],
             mismatched_data |-> EmptyFrame,
             only_in_file1_data |-> EmptyFrame,
             only_in_file2_data |-> EmptyFrame]

NoLocals == [aggregated |-> FALSE]

NoException == [type |-> "", message |-> ""]

NoAggregation ==
    /\ use_aggregation = FALSE
    /\ agg_columns_file1 = <<>>
    /\ agg_columns_file2 = <<>>
    /\ agg_functions = EmptyDict

\* the columns of the two files uploaded to the page, in file order
PageColumns1 == <<"id">>

PageColumns2 == <<"cid", "amount">>

\* the session state as lines 76-99 initialise it when there is no default
\* preset file: two empty dicts, no preset, selectboxes at "None"
NewSession ==
    /\ heap = <<EmptyDict, EmptyDict>>
    /\ session_column_mappings = 1
    /\ session_key_columns = 2
    /\ mapping_presets = <<>>
    /\ current_preset_name = ""
    /\ mapping_widgets = [col1 \in Range(PageColumns1) |-> "None"]
    /\ preset_saved = <<>>

\* calls without aggregation over a key column and a value column of any
\* kind; the key column mapped or not, the key set given or empty
InitPlain ==
    /\ df1 \in Frames(Columns1, ColumnKinds)
    /\ df2 \in Frames(Columns2, ColumnKinds)
    /\ \E call \in {<<FullMapping, IdKey>>, <<AmtMapping, IdKey>>,
                    <<FullMapping, EmptyDict>>} :
          /\ column_mappings = call[1]
          /\ key_columns = call[2]
    /\ NoAggregation

\* calls without aggregation over a key column and two integer value columns
InitWide ==
    /\ df1 \in Frames(WideColumns1, WideKinds)
    /\ df2 \in Frames(WideColumns2, WideKinds)
    /\ column_mappings = WideMapping
    /\ key_columns = IdKey
    /\ NoAggregation

\* calls with aggregation by id / cid: the reduced columns are numeric
InitAggregated ==
    /\ df1 \in Frames(Columns1, NumericKinds)
    /\ df2 \in Frames(Columns2, NumericKinds)
    /\ column_mappings \in {FullMapping, AmtMapping}
    /\ key_columns = IdKey
    /\ use_aggregation = TRUE
    /\ agg_columns_file1 = <<"id">>
    /\ agg_columns_file2 = <<"cid">>
    /\ agg_functions \in {<< <<"amt", "sum">> >>, << <<"amt", "max">> >>}

\* calls without aggregation over a text key column and an integer column:
\* a key of two columns, no mapping at all, a mapping to a missing column
InitNumeric ==
    /\ df1 \in Frames(Columns1, NumericKinds)
    /\ df2 \in Frames(Columns2, NumericKinds)
    /\ \E call \in {<<FullMapping, FullKey>>, <<EmptyDict, IdKey>>,
                    <<MissingTargetMapping, IdKey>>} :
          /\ column_mappings = call[1]
          /\ key_columns = call[2]
    /\ NoAggregation

\* calls whose aggregation arguments do not all hold: the flag unset, or
\* one of the two lists or the dict of functions empty
InitSkipped ==
    /\ df1 \in Frames(Columns1, NumericKinds)
    /\ df2 \in Frames(Columns2, NumericKinds)
    /\ column_mappings = FullMapping
    /\ key_columns = IdKey
    /\ \E call \in {<<FALSE, <<"id">>, <<"cid">>, << <<"amt", "sum">> >> >>,
                    <<TRUE, <<>>, <<"cid">>, << <<"amt", "sum">> >> >>,
                    <<TRUE, <<"id">>, <<>>, << <<"amt", "sum">> >> >>,
                    <<TRUE, <<"id">>, <<"cid">>, EmptyDict>>} :
          /\ use_aggregation = call[1]
          /\ agg_columns_file1 = call[2]
          /\ agg_columns_file2 = call[3]
          /\ agg_functions = call[4]

\* calls with aggregation by id / cid of frames with a column that has no
\* aggregation function
InitWideAggregated ==
    /\ df1 \in Frames(WideColumns1, WideKinds)
    /\ df2 \in Frames(WideColumns2, WideKinds)
    /\ column_mappings = WideMapping
    /\ key_columns = IdKey
    /\ use_aggregation = TRUE
    /\ agg_columns_file1 = <<"id">>
    /\ agg_columns_file2 = <<"cid">>
    /\ agg_functions = << <<"amt", "sum">> >>

\* calls without aggregation whose key is two text columns with values
\* that contain "|"
InitDelimited ==
    /\ df1 \in Frames(Columns1, DelimitedKinds)
    /\ df2 \in Frames(Columns2, DelimitedKinds)
    /\ column_mappings = FullMapping
    /\ key_columns = FullKey
    /\ NoAggregation

\* calls without aggregation over a key column and an integer column that
\* File 1 names _flag
InitUnderscore ==
    /\ df1 \in Frames(UnderscoreColumns1, WideKinds)
    /\ df2 \in Frames(UnderscoreColumns2, WideKinds)
    /\ column_mappings = UnderscoreMapping
    /\ key_columns = IdKey
    /\ NoAggregation

Init ==
    /\ \/ InitPlain
       \/ InitWide
       \/ InitAggregated
       \/ InitNumeric
       \/ InitSkipped
       \/ InitWideAggregated
       \/ InitDelimited
       \/ InitUnderscore
    /\ pc = "start"
    /\ locals = NoLocals
    /\ result = NoResult
    /\ exception = NoException
    /\ NewSession

\* The caller's df1 as the call leaves it, the call's df1_copy as if it were
\* the same object: the column assignments of lines 40 and 48 would show in
\* df1 unless the aggregation branch had rebound df1_copy to a new frame
CallerDf1_Aliased(d1, l) == IF l.aggregated THEN d1 ELSE l.df1_copy

\* The caller's df1 as the call leaves it.  df1_copy is df1.copy(), a frame
\* with data of its own (line 22), or the new frame of the aggregation (line
\* 27): the column assignments of lines 40 and 48 write to it, not to df1.
CallerDf1(d1, l) == d1

\* The inputs no statement of the call writes to: df2 (df2_copy is never
\* assigned to, df2_mapped is a new frame), the two dicts (rebound at line
\* 27 to new dicts, never updated) and the aggregation arguments.
others == <<df2, column_mappings, key_columns, use_aggregation,
            agg_columns_file1, agg_columns_file2, agg_functions>>

Call == perform_reconciliation(df1, df2, column_mappings, key_columns,
                               use_aggregation, agg_columns_file1,
                               agg_columns_file2, agg_functions)

\* the call returns its result
Reconcile ==
    /\ pc = "start"
    /\ \E call \in {Call} :
          /\ ~call.raised
          /\ locals' = call.locals
          /\ result' = call.result
          /\ df1' = CallerDf1(df1, call.locals)
    /\ pc' = "done"
    /\ UNCHANGED exception
    /\ UNCHANGED others
    /\ UNCHANGED session

\* the call raises ValueError("No key columns provided for matching")
RaiseNoKeyColumns ==
    /\ pc = "start"
    /\ \E call \in {Call} :
          /\ call.raised
          /\ locals' = call.locals
          /\ exception' = call.exception
          /\ df1' = CallerDf1(df1, call.locals)
    /\ pc' = "raised"
    /\ UNCHANGED result
    /\ UNCHANGED others
    /\ UNCHANGED session

Next == Reconcile \/ RaiseNoKeyColumns

Spec == Init /\ [][Next]_vars

(***************************************************************************)
(* Vocabulary of the properties.  The reconciled datasets are df1_copy and *)
(* df2_mapped as the call leaves them: the inputs, or their aggregates     *)
(* when the aggregation branch ran, with the bookkeeping columns added.    *)
(***************************************************************************)
Done == pc = "done"

RowsA == 1..Len(locals.df1_copy.rows)

RowsB == 1..Len(locals.df2_mapped.rows)

KeyA(i) == locals.df1_copy.rows[i]["_composite_key"].s

KeyB(j) == locals.df2_mapped.rows[j]["_composite_key"].s

\* the positions, in the reconciled datasets, of the rows of a joined row
RecA(r) == r["_rec_id_1"].n + 1

RecB(r) == r["_rec_id_2"].n + 1

Pairs == 1..Len(locals.matched.rows)

Pair(p) == locals.matched.rows[p]

MappedColumns == DictKeys(locals.column_mappings)

\* the pair is reported in the mismatched table
Emitted(p) == HasMismatch(locals.matched, MappedColumns, Pair(p))

OnlyInA(i) == \E k \in 1..Len(locals.only_in_file1.rows) :
                  RecA(locals.only_in_file1.rows[k]) = i

OnlyInB(j) == \E k \in 1..Len(locals.only_in_file2.rows) :
                  RecB(locals.only_in_file2.rows[k]) = j

MatchedA(i) == \E p \in Pairs : RecA(Pair(p)) = i /\ ~Emitted(p)

MismatchedA(i) == \E p \in Pairs : RecA(Pair(p)) = i /\ Emitted(p)

MatchedB(j) == \E p \in Pairs : RecB(Pair(p)) = j /\ ~Emitted(p)

MismatchedB(j) == \E p \in Pairs : RecB(Pair(p)) = j /\ Emitted(p)

ExactlyOne(a, b, c) == (a /\ ~b /\ ~c) \/ (~a /\ b /\ ~c) \/ (~a /\ ~b /\ c)

PartnersOfA(i) == {j \in RowsB : KeyB(j) = KeyA(i)}

PartnersOfB(j) == {i \in RowsA : KeyA(i) = KeyB(j)}

\* the canonical string of a value, a null being the empty string
CanonicalString(v) ==
    IF v.t = "null" THEN ""
    ELSE IF v.t = "str" THEN v.s
    ELSE IF v.t = "int" THEN IntStr(v.n)
    ELSE IntStr(v.n) \o ".0"

(***************************************************************************)
(* C1  Partition of the rows.                                              *)
(***************************************************************************)
\* C1 as stated: after any call, every row of A is in exactly one of
\* matched, mismatched, only_in_A and every row of B in exactly one of
\* matched, mismatched, only_in_B, duplicate keys included.
C1_PartitionAsStated ==
    Done =>
        /\ \A i \in RowsA : ExactlyOne(MatchedA(i), MismatchedA(i), OnlyInA(i))
        /\ \A j \in RowsB : ExactlyOne(MatchedB(j), MismatchedB(j), OnlyInB(j))

\* C1 amended: every row of a reconciled dataset is either reported once as
\* only-in-its-file or takes part in at least one key-matched pair, never
\* both; a row whose key occurs at most once on the other side is in
\* exactly one of the three classes.  (A row with several partners may be
\* matched in one pair and mismatched in another.)
C1_Partition ==
    Done =>
        /\ \A i \in RowsA :
              /\ OnlyInA(i) <=> ~(MatchedA(i) \/ MismatchedA(i))
              /\ Cardinality({k \in 1..Len(locals.only_in_file1.rows) :
                                 RecA(locals.only_in_file1.rows[k]) = i}) <= 1
              /\ Cardinality(PartnersOfA(i)) <= 1
                    => ExactlyOne(MatchedA(i), MismatchedA(i), OnlyInA(i))
        /\ \A j \in RowsB :
              /\ OnlyInB(j) <=> ~(MatchedB(j) \/ MismatchedB(j))
              /\ Cardinality({k \in 1..Len(locals.only_in_file2.rows) :
                                 RecB(locals.only_in_file2.rows[k]) = j}) <= 1
              /\ Cardinality(PartnersOfB(j)) <= 1
                    => ExactlyOne(MatchedB(j), MismatchedB(j), OnlyInB(j))

\* a call that put rows in all classes: an A row only in A, a B row only in
\* B, a mismatched pair and, for another key, a matched pair
C1_Witness ==
    /\ Done
    /\ \E i \in RowsA : OnlyInA(i)
    /\ \E j \in RowsB : OnlyInB(j)
    /\ \E i \in RowsA : MismatchedA(i) /\ Cardinality(PartnersOfA(i)) = 1
    /\ \E j \in RowsB : MismatchedB(j) /\ Cardinality(PartnersOfB(j)) = 1

(***************************************************************************)
(* C2  The counts.                                                         *)
(***************************************************************************)
\* the fields of a key-matched pair: the mapped columns both reconciled
\* datasets have
FieldsOfPairs ==
    {c \in Range(MappedColumns) :
        c \in locals.df1_copy.columns /\ c \in locals.df2_mapped.columns}

\* the A row and the B row of the pair differ in some field, by the
\* string-normalised equality of their values
FieldDifference(p) ==
    \E c \in FieldsOfPairs :
        CanonicalString(locals.df1_copy.rows[RecA(Pair(p))][c])
            /= CanonicalString(locals.df2_mapped.rows[RecB(Pair(p))][c])

\* C2 as stated: matched + mismatched is the number of joined rows whose key
\* is in both datasets, matched counts those with zero field differences,
\* mismatched the rest, and only_in_file1 + only_in_file2 all other rows.
C2_CountsAsStated ==
    Done =>
        /\ result.stats.matched + result.stats.mismatched = Cardinality(Pairs)
        /\ result.stats.matched
              = Cardinality({p \in Pairs : ~FieldDifference(p)})
        /\ result.stats.mismatched
              = Cardinality({p \in Pairs : FieldDifference(p)})
        /\ result.stats.only_in_file1 + result.stats.only_in_file2
              = Cardinality({i \in RowsA : PartnersOfA(i) = {}})
                  + Cardinality({j \in RowsB : PartnersOfB(j) = {}})

(***************************************************************************)
(* C3  The only-in tables.                                                 *)
(***************************************************************************)
\* row i of reconciled A without the bookkeeping columns
SourceRowA(i) ==
    [c \in locals.df1_copy.columns \ {"_rec_id_1", "_composite_key"} |->
        locals.df1_copy.rows[i][c]]

\* row j of reconciled B with its own, un-renamed columns
SourceRowB(j) == locals.df2_copy.rows[j]

\* C3 as stated: every row of only_in_file1_data is a row of reconciled A
\* whose key no B row has, every row of only_in_file2_data a row of
\* reconciled B (its original columns) whose key no A row has, without and
\* with aggregation.
C3_OnlyInRowsAsStated ==
    Done =>
        /\ \A k \in 1..Len(result.only_in_file1_data.rows) :
              \E i \in RowsA :
                  /\ result.only_in_file1_data.rows[k] = SourceRowA(i)
                  /\ PartnersOfA(i) = {}
        /\ \A k \in 1..Len(result.only_in_file2_data.rows) :
              \E j \in RowsB :
                  /\ result.only_in_file2_data.rows[k] = SourceRowB(j)
                  /\ PartnersOfB(j) = {}

(***************************************************************************)
(* C4  The join.                                                           *)
(***************************************************************************)
\* C4: every A row and B row of equal key make exactly one matched pair, so
\* a key occurring m times in A and n times in B has m*n pairs, and no pair
\* joins rows of different keys.
C4_CartesianJoin ==
    Done =>
        /\ \A i \in RowsA : \A j \in RowsB :
              Cardinality({p \in Pairs : RecA(Pair(p)) = i /\ RecB(Pair(p)) = j})
                  = IF KeyA(i) = KeyB(j) THEN 1 ELSE 0
        /\ \A p \in Pairs :
              /\ RecA(Pair(p)) \in RowsA
              /\ RecB(Pair(p)) \in RowsB
              /\ KeyA(RecA(Pair(p))) = KeyB(RecB(Pair(p)))
        /\ \A i \in RowsA :
              Cardinality({p \in Pairs : KeyA(RecA(Pair(p))) = KeyA(i)})
                  = Cardinality({x \in RowsA : KeyA(x) = KeyA(i)})
                      * Cardinality(PartnersOfA(i))

\* a key that occurs twice in A and twice in B, with its four pairs
C4_Witness ==
    /\ Done
    /\ \E i \in RowsA :
          /\ Cardinality({x \in RowsA : KeyA(x) = KeyA(i)}) = 2
          /\ Cardinality(PartnersOfA(i)) = 2
          /\ Cardinality({p \in Pairs : KeyA(RecA(Pair(p))) = KeyA(i)}) = 4

(***************************************************************************)
(* C5 - C8  The mismatched table.  The values of a pair are those of its   *)
(* row of the joined table handed to identify_mismatches.                  *)
(***************************************************************************)
EmittedRows == result.mismatched_data.rows

\* column c differs for the pair: its two joined values are different strings
Differs(r, c) ==
    CanonicalString(r[c \o "_file1"]) /= CanonicalString(r[c \o "_file2"])

\* the compared columns: the mapped columns both reconciled datasets have,
\* those named like the bookkeeping columns (a leading underscore) aside
ComparedFields == {c \in FieldsOfPairs : ~StartsWithUnderscore(c)}

\* the pairs with at least one differing compared column, in join order
DifferingPairs ==
    SelectSeq([p \in Pairs |-> p],
              LAMBDA p : \E c \in ComparedFields : Differs(Pair(p), c))

\* the columns an emitted row shows of its pair
ShownColumns ==
    {"_composite_key"} \cup
    UNION {{c \o "_file1", c \o "_file2"} : c \in ComparedFields}

\* C5: the mismatched table has one row for each pair with at least one
\* differing compared column and no other row: a pair differing in several
\* columns is there once, a pair differing in none is not there.
C5_EmittedOnceIffDiffers ==
    Done =>
        /\ Len(EmittedRows) = Len(DifferingPairs)
        /\ \A k \in 1..Len(EmittedRows) :
              k <= Len(DifferingPairs) =>
                  \A c \in ShownColumns :
                      /\ c \in DOMAIN EmittedRows[k]
                      /\ EmittedRows[k][c] = Pair(DifferingPairs[k])[c]

\* one pair differing in two columns, emitted once, beside a pair that does
\* not differ and is not emitted
C5_Witness ==
    /\ Done
    /\ Len(EmittedRows) = 1
    /\ {"amt", "qty"} \subseteq ComparedFields
    /\ \E p \in Pairs : Differs(Pair(p), "amt") /\ Differs(Pair(p), "qty")
    /\ \E p \in Pairs : \A c \in ComparedFields : ~Differs(Pair(p), c)

\* C6: a compared column carries a diff for an emitted pair exactly when the
\* canonical strings of its two values differ, a null counting as the empty
\* string; when no pair differs in this sense nothing is emitted.  So null
\* against '' and integer 1 against text "1" are equal.
C6_StringNormalisedEquality ==
    Done =>
        /\ \A k \in 1..Len(EmittedRows) : \A c \in ComparedFields :
              /\ (c \o "_diff") \in DOMAIN EmittedRows[k]
              /\ ~IsNull(EmittedRows[k][c \o "_diff"]) <=> Differs(EmittedRows[k], c)
        /\ (\A p \in Pairs : \A c \in ComparedFields : ~Differs(Pair(p), c))
              => /\ result.mismatched_data = EmptyFrame
                 /\ result.stats.matched = Cardinality(Pairs)

\* an integer 1 paired with the text "1" and a null paired with '' in calls
\* that report every pair as matched
C6_Witness ==
    /\ Done
    /\ Pairs /= {}
    /\ result.stats.matched = Cardinality(Pairs)
    /\ \E p \in Pairs :
          \/ Pair(p)["amt_file1"] = IntV(1) /\ Pair(p)["amt_file2"] = StrV("1")
          \/ Pair(p)["amt_file1"] = Null /\ Pair(p)["amt_file2"] = StrV("")

\* C7 as stated: every differing column of an emitted pair carries the
\* annotation "A: <valueA> | B: <valueB>".
C7_AnnotationAsStated ==
    Done =>
        \A k \in 1..Len(EmittedRows) : \A c \in ComparedFields :
            Differs(EmittedRows[k], c) =>
                EmittedRows[k][c \o "_diff"]
                    = StrV("A: " \o CanonicalString(EmittedRows[k][c \o "_file1"])
                         \o " | B: " \o CanonicalString(EmittedRows[k][c \o "_file2"]))

\* C7 amended: every differing column of an emitted pair carries the
\* annotation "File1: <valueA> | File2: <valueB>", the values being the
\* canonical strings of the pair's two values, '' for a missing one.
C7_Annotation ==
    Done =>
        \A k \in 1..Len(EmittedRows) : \A c \in ComparedFields :
            Differs(EmittedRows[k], c) =>
                EmittedRows[k][c \o "_diff"]
                    = StrV("File1: " \o CanonicalString(EmittedRows[k][c \o "_file1"])
                         \o " | File2: " \o CanonicalString(EmittedRows[k][c \o "_file2"]))

\* amount 1 against 2, and a missing amount against "1"
C7_Witness ==
    /\ Done
    /\ \E k \in 1..Len(EmittedRows) :
          \/ EmittedRows[k]["amt_diff"] = StrV("File1: 1 | File2: 2")
          \/ EmittedRows[k]["amt_diff"] = StrV("File1:  | File2: 1")

\* the pair of the k-th emitted row, by the mask of the detector
MaskedPairs == SelectSeq([p \in Pairs |-> p], LAMBDA p : Emitted(p))

Returned == pc = "done" \/ pc = "raised"

\* the distinct value-tuples of the columns by in the frame, nulls included
ValueTuples(df, by) ==
    {[k \in 1..Len(by) |-> df.rows[i][by[k]]] : i \in 1..Len(df.rows)}

\* C9 as stated: with aggregation each aggregated dataset has exactly one
\* row per distinct value-tuple of its grouping columns, tuples with a null
\* included.
C9_OneRowPerGroupAsStated ==
    (Returned /\ locals.aggregated) =>
        /\ Len(locals.df1_copy.rows)
              = Cardinality(ValueTuples(df1, agg_columns_file1))
        /\ Len(locals.df2_copy.rows)
              = Cardinality(ValueTuples(df2, agg_columns_file2))

\* C10 as stated: after aggregation the key set is exactly the grouping
\* columns of File 1, each paired with the grouping column of File 2, so it
\* is non-empty when they are, and the composite keys of the aggregated rows
\* are unique within each dataset.
C10_KeysAreGroupColumnsAsStated ==
    (Returned /\ locals.aggregated) =>
        /\ DictKeys(locals.key_columns) = agg_columns_file1
        /\ \A k \in 1..Len(locals.key_columns) :
              k <= Len(agg_columns_file2)
                  => locals.key_columns[k][2] = agg_columns_file2[k]
        /\ agg_columns_file1 /= <<>> => locals.key_columns /= EmptyDict
        /\ Done =>
              /\ \A i, x \in RowsA : KeyA(i) = KeyA(x) => i = x
              /\ \A j, y \in RowsB : KeyB(j) = KeyB(y) => j = y

(***************************************************************************)
(* C11 - C14  Configuration errors and the aggregation branch.             *)
(***************************************************************************)
\* the list of key columns the call builds its composite keys from
KeyColsFile1 == DictKeys(locals.key_columns)

\* C11: a call whose key set is empty fails with the error of a missing
\* key (ValueError in this code) and returns no partial result, and
\* create_composite_key fails on the empty list of columns; a call that
\* returned had a key for every row.
C11_FailsOnEmptyKeySet ==
    /\ (Returned /\ KeyColsFile1 = <<>>) =>
          /\ CompositeKeyRaises(KeyColsFile1)
          /\ pc = "raised"
          /\ exception.type = "ValueError"
          /\ exception.message = "No key columns provided for matching"
          /\ result = NoResult
    /\ Done =>
          /\ ~CompositeKeyRaises(KeyColsFile1)
          /\ exception = NoException
          /\ \A i \in RowsA : "_composite_key" \in DOMAIN locals.df1_copy.rows[i]

\* a call with the empty key set that raised and left no result
C11_Witness ==
    /\ pc = "raised"
    /\ key_columns = EmptyDict
    /\ exception.type = "ValueError"
    /\ result = NoResult

\* C12 as stated: a call with no column mapping fails instead of returning
\* a result.
C12_FailsWithoutMappingsAsStated ==
    (Returned /\ column_mappings = EmptyDict) =>
        /\ pc = "raised"
        /\ result = NoResult

\* some part of a requested aggregation is empty
AggregationPartEmpty ==
    \/ agg_columns_file1 = <<>>
    \/ agg_columns_file2 = <<>>
    \/ agg_functions = EmptyDict

\* C13 as stated: a call that requests aggregation with no grouping column
\* of File 1, none of File 2 or no aggregation function fails.
C13_FailsOnEmptyAggregationAsStated ==
    (Returned /\ use_aggregation /\ AggregationPartEmpty) =>
        /\ pc = "raised"
        /\ result = NoResult

\* row i of the frame without the bookkeeping columns of the call
WithoutBookkeeping(row) ==
    [c \in DOMAIN row \ {"_rec_id_1", "_rec_id_2", "_composite_key"} |-> row[c]]

\* C14: the aggregation branch runs exactly when the flag is set and the two
\* lists of grouping columns and the functions are all non-empty; otherwise
\* the call reconciles the frames as passed, with the mapping and the key set
\* as passed, and returns whenever that key set is not empty.
C14_AggregationOnlyWhenComplete ==
    Returned =>
        /\ locals.aggregated <=> (use_aggregation /\ ~AggregationPartEmpty)
        /\ ~locals.aggregated =>
              /\ locals.column_mappings = column_mappings
              /\ locals.key_columns = key_columns
              /\ locals.df2_copy = df2
              /\ Len(locals.df1_copy.rows) = Len(df1.rows)
              /\ \A i \in 1..Len(df1.rows) :
                    WithoutBookkeeping(locals.df1_copy.rows[i]) = df1.rows[i]
              /\ key_columns /= EmptyDict => pc = "done"

\* a call that set the flag but gave no grouping column for File 2: it
\* returned the reconciliation of the two frames as passed
C14_Witness ==
    /\ Done
    /\ use_aggregation
    /\ agg_columns_file1 /= <<>>
    /\ agg_columns_file2 = <<>>
    /\ ~locals.aggregated
    /\ Len(locals.df1_copy.rows) = 2
    /\ df1.rows[1]["id"] = df1.rows[2]["id"]

(***************************************************************************)
(* C15  The composite key.                                                 *)
(***************************************************************************)
\* the string a listed column contributes to the key of a row
KeyString(frame, row, c) ==
    IF c \in frame.columns THEN CanonicalString(row[c]) ELSE ""

RECURSIVE JoinedKey(_, _, _)
\* the strings of the listed columns, in the order listed, with "|" between
JoinedKey(frame, row, cols) ==
    IF cols = <<>> THEN ""
    ELSE IF Len(cols) = 1 THEN KeyString(frame, row, cols[1])
    ELSE KeyString(frame, row, cols[1]) \o "|" \o JoinedKey(frame, row, Tail(cols))

\* C15: every row of A and of the renamed B has the key made of the strings
\* of the listed columns joined with "|" in the listed order, a null and a
\* column the dataset lacks contributing the empty string; so an A row whose
\* only key column is null has the key "" and is only-in-A when no B row has
\* the key "".
C15_CompositeKey ==
    Done =>
        /\ \A i \in RowsA :
              KeyA(i) = JoinedKey(locals.df1_copy, locals.df1_copy.rows[i],
                                  KeyColsFile1)
        /\ \A j \in RowsB :
              KeyB(j) = JoinedKey(locals.df2_mapped, locals.df2_mapped.rows[j],
                                  KeyColsFile1)
        /\ \A j \in RowsB :
              (/\ Len(KeyColsFile1) = 1
               /\ KeyColsFile1[1] \notin locals.df2_mapped.columns)
                  => KeyB(j) = ""
        /\ \A i \in RowsA :
              (/\ Len(KeyColsFile1) = 1
               /\ KeyColsFile1[1] \in locals.df1_copy.columns
               /\ IsNull(locals.df1_copy.rows[i][KeyColsFile1[1]]))
                  => /\ KeyA(i) = ""
                     /\ (\A j \in RowsB : KeyB(j) /= "")
                           => /\ OnlyInA(i)
                              /\ ~MatchedA(i)
                              /\ ~MismatchedA(i)

\* an A row whose only key column, id, is null: its key is "" and, no B row
\* having that key, it is only in A
C15_Witness ==
    /\ Done
    /\ KeyColsFile1 = <<"id">>
    /\ RowsB /= {}
    /\ \E i \in RowsA :
          /\ IsNull(locals.df1_copy.rows[i]["id"])
          /\ KeyA(i) = ""
          /\ OnlyInA(i)

(***************************************************************************)
(* C16  The no-mismatch case.                                              *)
(***************************************************************************)
\* the rows of reconciled A and of the renamed B, without the bookkeeping
RowA(i) == WithoutBookkeeping(locals.df1_copy.rows[i])

RowB(j) == WithoutBookkeeping(locals.df2_mapped.rows[j])

\* A and the renamed B have the same columns and the same rows, each as
\* many times in B as in A, in any order
IdenticalAfterMapping ==
    /\ Cardinality(RowsA) = Cardinality(RowsB)
    /\ \A i \in RowsA :
          Cardinality({x \in RowsA : RowA(x) = RowA(i)})
              = Cardinality({j \in RowsB : RowB(j) = RowA(i)})

UniqueKeys ==
    /\ \A i, x \in RowsA : KeyA(i) = KeyA(x) => i = x
    /\ \A j, y \in RowsB : KeyB(j) = KeyB(y) => j = y

Min(a, b) == IF a <= b THEN a ELSE b

\* C16: when A and the renamed B are identical and the keys are unique in
\* each, nothing is mismatched, every row is matched (matched is
\* min(|A|, |B|)) and nothing is only in one file.
C16_NoMismatchCase ==
    (Done /\ IdenticalAfterMapping /\ UniqueKeys) =>
        /\ result.mismatched_data = EmptyFrame
        /\ result.stats.mismatched = 0
        /\ result.stats.matched = Min(Cardinality(RowsA), Cardinality(RowsB))
        /\ result.stats.only_in_file1 = 0
        /\ result.stats.only_in_file2 = 0
        /\ result.only_in_file1_data = EmptyFrame
        /\ result.only_in_file2_data = EmptyFrame

\* two identical datasets of two rows with different keys, listed in
\* opposite orders
C16_Witness ==
    /\ Done
    /\ IdenticalAfterMapping
    /\ UniqueKeys
    /\ Cardinality(RowsA) = 2
    /\ RowA(1) = RowB(2)
    /\ RowA(1) /= RowB(1)
    /\ result.stats.matched = 2

MappingsWithoutTarget ==
    {k \in 1..Len(column_mappings) :
        column_mappings[k][2] \notin locals.df2_copy.columns}

\* the caller's key columns that have no mapping, or one to a missing column
KeysWithoutMapping ==
    {k \in 1..Len(key_columns) :
        \/ ~DictHas(column_mappings, key_columns[k][1])
        \/ DictGet(column_mappings, key_columns[k][1]) \notin df2.columns}

\* C18 as stated: a call with a key set never fails for a soft
\* inconsistency: it returns a result with the four counts, a mapping to a
\* column B lacks being left out of the renamed B and a sole key column
\* without mapping giving every B row the key "".
C18_SoftInconsistenciesAsStated ==
    (Returned /\ key_columns /= EmptyDict) =>
        /\ pc = "done"
        /\ DOMAIN result.stats
              = {"matched", "mismatched", "only_in_file1", "only_in_file2"}
        /\ \A k \in MappingsWithoutTarget :
              column_mappings[k][1] \notin locals.df2_mapped.columns
        /\ (Len(key_columns) = 1 /\ KeysWithoutMapping /= {})
              => \A j \in RowsB : KeyB(j) = ""

(***************************************************************************)
(* C19  Key columns and the comparison.                                    *)
(***************************************************************************)
\* the compared columns that are key columns of the matching
ComparedKeyColumns == FieldsOfPairs \cap Range(KeyColsFile1)

\* C19 as stated: key columns are not compared: no emitted row has a diff
\* annotation for a key column, and every emitted pair differs in a mapped
\* column that is not a key column.
C19_KeyColumnsNotComparedAsStated ==
    Done =>
        /\ \A k \in 1..Len(EmittedRows) : \A c \in ComparedKeyColumns :
              \/ (c \o "_diff") \notin DOMAIN EmittedRows[k]
              \/ IsNull(EmittedRows[k][c \o "_diff"])
        /\ \A p \in Pairs :
              Emitted(p) =>
                  \E c \in FieldsOfPairs \ ComparedKeyColumns :
                      MismatchMask(Pair(p), c)

(***************************************************************************)
(* C20  The columns and the mapping after aggregation.                     *)
(***************************************************************************)
\* the columns of File 1 with an aggregation function that are not grouped by
ReducedColumnsA ==
    {c \in Range(DictKeys(agg_functions)) :
        c \in df1.columns /\ c \notin Range(agg_columns_file1)}

\* the columns of File 2 mapped from a column with an aggregation function,
\* that are not grouped by
ReducedColumnsB ==
    {DictGet(column_mappings, c) :
        c \in {x \in Range(DictKeys(agg_functions)) :
                  /\ DictHas(column_mappings, x)
                  /\ DictGet(column_mappings, x) \in df2.columns
                  /\ DictGet(column_mappings, x) \notin Range(agg_columns_file2)}}

\* the columns of aggregated A, the record id (and the key) of the call aside
AggregatedColumnsA ==
    locals.df1_copy.columns \ {"_rec_id_1", "_composite_key"}

AggregatedColumnsB == locals.df2_copy.columns

\* C20: each aggregated dataset has exactly its grouping columns and its
\* reduced columns, and the mapping returned has exactly the pairs of the
\* caller's mapping, in its order, whose File 1 column is in aggregated A and
\* whose File 2 column is in aggregated B.
C20_AggregatedColumnsAndMapping ==
    (Returned /\ locals.aggregated) =>
        /\ AggregatedColumnsA = Range(agg_columns_file1) \cup ReducedColumnsA
        /\ AggregatedColumnsB = Range(agg_columns_file2) \cup ReducedColumnsB
        /\ locals.column_mappings
              = SelectSeq(column_mappings,
                          LAMBDA p : /\ p[1] \in AggregatedColumnsA
                                     /\ p[2] \in AggregatedColumnsB)

\* an aggregation that dropped qty and quantity, which have no aggregation
\* function, and with them their pair of the mapping
C20_Witness ==
    /\ Done
    /\ locals.aggregated
    /\ "qty" \in df1.columns
    /\ "qty" \notin AggregatedColumnsA
    /\ "quantity" \notin AggregatedColumnsB
    /\ column_mappings = WideMapping
    /\ locals.column_mappings = FullMapping
    /\ RowsA /= {}

(***************************************************************************)
(* C21  Injectivity of the composite key.                                  *)
(***************************************************************************)
\* the strings of the key columns of a row, column by column
KeyTuple(frame, row) ==
    [k \in 1..Len(KeyColsFile1) |-> KeyString(frame, row, KeyColsFile1[k])]

KeyTupleA(i) == KeyTuple(locals.df1_copy, locals.df1_copy.rows[i])

KeyTupleB(j) == KeyTuple(locals.df2_mapped, locals.df2_mapped.rows[j])

\* C21 as stated: with two or more key columns, rows of equal composite key
\* have equal key strings column by column, values that contain "|"
\* included; so rows of different key tuples are never joined.
C21_KeysInjectiveAsStated ==
    (Done /\ Len(KeyColsFile1) >= 2) =>
        /\ \A i \in RowsA : \A j \in RowsB :
              KeyA(i) = KeyB(j) => KeyTupleA(i) = KeyTupleB(j)
        /\ \A i, x \in RowsA : KeyA(i) = KeyA(x) => KeyTupleA(i) = KeyTupleA(x)
        /\ \A j, y \in RowsB : KeyB(j) = KeyB(y) => KeyTupleB(j) = KeyTupleB(y)
        /\ \A p \in Pairs :
              KeyTupleA(RecA(Pair(p))) = KeyTupleB(RecB(Pair(p)))

(***************************************************************************)
(* C22  A pair's report does not depend on the other rows.                 *)
(***************************************************************************)
\* what a run, given by its locals, reports of its key-matched pairs: the
\* two rows of the pair, whether the pair is mismatched, and its diff
\* annotation in every compared column
PairReports(l) ==
    LET compared == ComparedColumns(l.matched, DictKeys(l.column_mappings))
    IN  {[a |-> WithoutBookkeeping(l.df1_copy.rows[RecA(l.matched.rows[p])]),
          b |-> WithoutBookkeeping(l.df2_mapped.rows[RecB(l.matched.rows[p])]),
          mismatched |-> HasMismatch(l.matched, DictKeys(l.column_mappings),
                                     l.matched.rows[p]),
          diff |-> [c \in compared |-> DiffCell(l.matched.rows[p], c)]] :
            p \in 1..Len(l.matched.rows)}

\* the rows of the frame at the positions that satisfy Keep, in order
RowsKept(frame, Keep(_)) ==
    LET kept == SelectSeq([i \in 1..Len(frame.rows) |-> i], Keep)
    IN  [columns |-> frame.columns,
         rows |-> [k \in 1..Len(kept) |-> frame.rows[kept[k]]]]

\* the same call on the inputs without the rows that are only in one file
CallWithoutUnmatchedRows ==
    perform_reconciliation(RowsKept(df1, LAMBDA i : ~OnlyInA(i)),
                           RowsKept(df2, LAMBDA j : ~OnlyInB(j)),
                           column_mappings, key_columns,
                           use_aggregation, agg_columns_file1,
                           agg_columns_file2, agg_functions)

\* C22 as stated: for a call without aggregation, the call on the same
\* inputs less the rows that are only in A or only in B returns too and
\* reports every key-matched pair the same: same classification, same diff
\* annotations.
C22_PairsIndependentOfOtherRowsAsStated ==
    (Done /\ ~locals.aggregated /\ Pairs /= {}) =>
        /\ ~CallWithoutUnmatchedRows.raised
        /\ PairReports(CallWithoutUnmatchedRows.locals) = PairReports(locals)

(***************************************************************************)
(* C23  Which columns are compared.                                        *)
(***************************************************************************)
\* the pairs that differ in some mapped column both datasets have, whatever
\* the name of the column
PairsDifferingInAnyField ==
    {p \in Pairs : \E c \in FieldsOfPairs : Differs(Pair(p), c)}

\* C23 as stated: every mapped column both datasets have is compared for
\* every pair, a column whose name begins with an underscore included: each
\* pair that differs in such a column is reported as mismatched, and each
\* emitted row has the diff cell of each such column.
C23_EveryMappedColumnComparedAsStated ==
    Done =>
        /\ result.stats.mismatched = Cardinality(PairsDifferingInAnyField)
        /\ Len(EmittedRows) = Cardinality(PairsDifferingInAnyField)
        /\ \A k \in 1..Len(EmittedRows) : \A c \in FieldsOfPairs :
              (c \o "_diff") \in DOMAIN EmittedRows[k]

\* ---------------------------------------------------------------------
\* The mapping page (src/app.py, column_mapping_tab): presets and mappings
\* ---------------------------------------------------------------------

\* d[k] = v on a dict: the value replaced in place, a new key appended
DictSet(d, k, v) ==
    IF DictHas(d, k)
    THEN [i \in 1..Len(d) |-> IF d[i][1] = k THEN <<k, v>> ELSE d[i]]
    ELSE Append(d, <<k, v>>)

\* del d[k]
DictDel(d, k) == SelectSeq(d, LAMBDA e : e[1] # k)

\* what a mapping selectbox can return (line 339)
col_options == {"None"} \cup Range(PageColumns2)

\* the values of the mapping selectboxes in one run of the script
Selections == [Range(PageColumns1) -> col_options]

\* the values of the key-column multiselect in one run of the script
KeySelections == {<<>>, <<"id">>}

\* the name a preset is saved or imported under; the empty name is what the
\* text input holds before anything is typed
PresetNames == {"p"}

DefaultPresetName == "Default Transaction Mapping"

\* the preset names in a fixed order
PresetOrder == <<DefaultPresetName, "p">>

\* the rows of a preset file: file1_column, file2_column, is_key_column
PresetFiles ==
    { <<[file1_column |-> "id", file2_column |-> "cid", is_key_column |-> TRUE]>>,
      <<[file1_column |-> "id", file2_column |-> "amount", is_key_column |-> FALSE]>> }

\* import_preset_from_csv: the two dicts built row by row
RECURSIVE ImportedColumnMappings(_)
ImportedColumnMappings(rows) ==
    IF rows = <<>> THEN EmptyDict
    ELSE DictSet(ImportedColumnMappings(SubSeq(rows, 1, Len(rows) - 1)),
                 rows[Len(rows)].file1_column, rows[Len(rows)].file2_column)

RECURSIVE ImportedKeyColumns(_)
ImportedKeyColumns(rows) ==
    IF rows = <<>> THEN EmptyDict
    ELSE IF rows[Len(rows)].is_key_column
         THEN DictSet(ImportedKeyColumns(SubSeq(rows, 1, Len(rows) - 1)),
                      rows[Len(rows)].file1_column, rows[Len(rows)].file2_column)
         ELSE ImportedKeyColumns(SubSeq(rows, 1, Len(rows) - 1))

\* the session state as one value
SessionState ==
    [heap |-> heap,
     column_mappings |-> session_column_mappings,
     key_columns |-> session_key_columns,
     mapping_presets |-> mapping_presets,
     current_preset_name |-> current_preset_name,
     mapping_widgets |-> mapping_widgets,
     preset_saved |-> preset_saved]

\* the identity of a new dict object: the first one not in use
NewId(h) == CHOOSE n \in 1..(Cardinality(DOMAIN h) + 1) :
                /\ n \notin DOMAIN h
                /\ \A m \in 1..(n - 1) : m \in DOMAIN h

\* every reference to a dict object: the session's two, then each preset's
RECURSIVE PresetReferences(_, _)
PresetReferences(presets, names) ==
    IF names = <<>> THEN <<>>
    ELSE IF Head(names) \in DOMAIN presets
         THEN <<presets[Head(names)].column_mappings,
                presets[Head(names)].key_columns>>
                  \o PresetReferences(presets, Tail(names))
         ELSE PresetReferences(presets, Tail(names))

References(s) ==
    <<s.column_mappings, s.key_columns>>
        \o PresetReferences(s.mapping_presets, PresetOrder)

\* the place of an object among the objects referred to, in order of first
\* reference
Place(refs, o) ==
    Cardinality({refs[j] : j \in 1..(CHOOSE i \in 1..Len(refs) :
                                        /\ refs[i] = o
                                        /\ \A k \in 1..(i - 1) : refs[k] # o)})

\* objects nothing refers to are gone, and the others are identified by
\* their place: an identity says only which references are to one object
CollectedAs(s, refs) ==
    [s EXCEPT
        !.heap = [r \in 1..Cardinality(Range(refs)) |->
                     s.heap[CHOOSE o \in Range(refs) : Place(refs, o) = r]],
        !.column_mappings = Place(refs, s.column_mappings),
        !.key_columns = Place(refs, s.key_columns),
        !.mapping_presets =
            [n \in DOMAIN s.mapping_presets |->
                [column_mappings |-> Place(refs, s.mapping_presets[n].column_mappings),
                 key_columns |-> Place(refs, s.mapping_presets[n].key_columns)]]]

Collected(s) == CollectedAs(s, References(s))

\* one selectbox of the loop: the dict bound to column_mappings is written
\* or shrunk in place
MapOne(d, col1, selected_col) ==
    IF selected_col # "None" THEN DictSet(d, col1, selected_col)
    ELSE IF DictHas(d, col1) THEN DictDel(d, col1)
    ELSE d

RECURSIVE MapAll(_, _, _)
MapAll(d, cols, selected) ==
    IF cols = <<>> THEN d
    ELSE MapAll(MapOne(d, Head(cols), selected[Head(cols)]), Tail(cols), selected)

\* the loop over the columns of File 1, each selectbox returning the value
\* it holds
MappingLoop(s) ==
    [s EXCEPT !.heap[s.column_mappings] =
                  MapAll(s.heap[s.column_mappings], PageColumns1, s.mapping_widgets)]

\* the values new selectboxes take: the column mapped to, if it is a column
\* of File 2
DefaultSelections(cm) ==
    [col1 \in Range(PageColumns1) |->
        IF DictHas(cm, col1) /\ DictGet(cm, col1) \in col_options
        THEN DictGet(cm, col1) ELSE "None"]

\* the user picks values in the selectboxes
Selected(s, selected) == [s EXCEPT !.mapping_widgets = selected]

\* st.experimental_rerun() ends the run before the selectboxes are reached.
\* Whether they are then made anew in the next run or keep their values is
\* up to the Streamlit release, so both are possible.
Rerun(s, anew) ==
    IF anew
    THEN [s EXCEPT !.mapping_widgets = DefaultSelections(s.heap[s.column_mappings])]
    ELSE s

RECURSIVE KeyDict(_, _)
KeyDict(cm, key_cols) ==
    IF key_cols = <<>> THEN EmptyDict
    ELSE IF DictHas(cm, key_cols[Len(key_cols)])
         THEN DictSet(KeyDict(cm, SubSeq(key_cols, 1, Len(key_cols) - 1)),
                      key_cols[Len(key_cols)], DictGet(cm, key_cols[Len(key_cols)]))
         ELSE KeyDict(cm, SubSeq(key_cols, 1, Len(key_cols) - 1))

\* key_columns is bound to a new dict and filled from the mapped selections
KeyColumnsUpdate(s, key_cols) ==
    [s EXCEPT !.heap = (NewId(s.heap) :> KeyDict(s.heap[s.column_mappings], key_cols))
                           @@ s.heap,
              !.key_columns = NewId(s.heap)]

\* the script from the mapping loop to the key columns, which every run
\* that is not cut short by a rerun goes through
RestOfScript(s, key_cols) ==
    Collected(KeyColumnsUpdate(MappingLoop(s), key_cols))

\* "Apply Selected Preset": the session refers to the preset's own dicts
AppliedPreset(s, selected_preset) ==
    [s EXCEPT !.column_mappings = s.mapping_presets[selected_preset].column_mappings,
              !.key_columns = s.mapping_presets[selected_preset].key_columns,
              !.current_preset_name = selected_preset]

\* the identity of the second of two new dict objects
SecondId(h) == NewId((NewId(h) :> EmptyDict) @@ h)

\* a preset entry made of two dict objects a and b holding cm and kc,
\* stored under a name (an entry of that name is replaced)
Stored(s, name, cm, kc, a, b) ==
    [s EXCEPT !.heap = (a :> cm) @@ (b :> kc) @@ s.heap,
              !.mapping_presets =
                  (name :> [column_mappings |-> a, key_columns |-> b])
                      @@ s.mapping_presets,
              !.current_preset_name = name,
              !.preset_saved =
                  (name :> [column_mappings |-> cm, key_columns |-> kc])
                      @@ s.preset_saved]

\* "Save Current Mappings as Preset": copies of the two dicts are stored,
\* unless the name or the mappings are empty
SavedPreset(s, new_preset_name) ==
    IF new_preset_name = "" \/ s.heap[s.column_mappings] = EmptyDict
    THEN s
    ELSE Stored(s, new_preset_name,
                s.heap[s.column_mappings], s.heap[s.key_columns],
                NewId(s.heap), SecondId(s.heap))

\* "Apply Imported Preset": the dicts read from the file are stored as the
\* preset and the session refers to the same two dicts
ImportedPreset(s, preset_name, rows) ==
    [Stored(s, preset_name,
            ImportedColumnMappings(rows), ImportedKeyColumns(rows),
            NewId(s.heap), SecondId(s.heap))
        EXCEPT !.column_mappings = NewId(s.heap),
               !.key_columns = SecondId(s.heap)]

\* "Clear All Mappings": the session is given two new empty dicts
Cleared(s) ==
    [s EXCEPT !.heap = (NewId(s.heap) :> EmptyDict)
                          @@ (SecondId(s.heap) :> EmptyDict) @@ s.heap,
              !.column_mappings = NewId(s.heap),
              !.key_columns = SecondId(s.heap),
              !.current_preset_name = ""]

\* the session after a run of the script
Becomes(s) ==
    /\ heap' = s.heap
    /\ session_column_mappings' = s.column_mappings
    /\ session_key_columns' = s.key_columns
    /\ mapping_presets' = s.mapping_presets
    /\ current_preset_name' = s.current_preset_name
    /\ mapping_widgets' = s.mapping_widgets
    /\ preset_saved' = s.preset_saved
    /\ UNCHANGED engine

\* a selectbox or the multiselect is changed: the script runs with no
\* button pressed
ChangeMapping ==
    /\ pc = "page"
    /\ \E selected \in Selections, key_cols \in KeySelections :
           Becomes(RestOfScript(Selected(SessionState, selected), key_cols))

\* "Save Current Mappings as Preset" is pressed; the script runs on
SavePreset ==
    /\ pc = "page"
    /\ \E new_preset_name \in PresetNames \cup {""}, key_cols \in KeySelections :
           Becomes(RestOfScript(SavedPreset(SessionState, new_preset_name),
                                key_cols))

\* "Apply Selected Preset" is pressed; the script is run again from the top
ApplySelectedPreset ==
    /\ pc = "page"
    /\ \E selected_preset \in DOMAIN mapping_presets,
          anew \in BOOLEAN, key_cols \in KeySelections :
           Becomes(RestOfScript(Rerun(AppliedPreset(SessionState, selected_preset),
                                      anew),
                                key_cols))

\* "Apply Imported Preset" is pressed; the script is run again from the top
ApplyImportedPreset ==
    /\ pc = "page"
    /\ \E preset_name \in PresetNames, rows \in PresetFiles,
          anew \in BOOLEAN, key_cols \in KeySelections :
           Becomes(RestOfScript(Rerun(ImportedPreset(SessionState, preset_name, rows),
                                      anew),
                                key_cols))

\* "Clear All Mappings" is pressed (the button is there while there are
\* mappings); the script is run again from the top
ClearAllMappings ==
    /\ pc = "page"
    /\ heap[session_column_mappings] # EmptyDict
    /\ \E anew \in BOOLEAN, key_cols \in KeySelections :
          Becomes(RestOfScript(Rerun(Cleared(SessionState), anew), key_cols))

\* no call of the engine is under way on the mapping page
NoCall ==
    /\ df1 = EmptyFrame
    /\ df2 = EmptyFrame
    /\ column_mappings = EmptyDict
    /\ key_columns = EmptyDict
    /\ NoAggregation
    /\ pc = "page"
    /\ locals = NoLocals
    /\ result = NoResult
    /\ exception = NoException

\* load_default_preset with the preset file in place: the preset is stored
\* and the session refers to its dicts
DefaultPresetLoaded ==
    \E rows \in PresetFiles :
        /\ heap = <<ImportedColumnMappings(rows), ImportedKeyColumns(rows)>>
        /\ session_column_mappings = 1
        /\ session_key_columns = 2
        /\ mapping_presets =
               (DefaultPresetName :> [column_mappings |-> 1, key_columns |-> 2])
        /\ current_preset_name = DefaultPresetName
        /\ mapping_widgets = DefaultSelections(ImportedColumnMappings(rows))
        /\ preset_saved =
               (DefaultPresetName :> [column_mappings |-> ImportedColumnMappings(rows),
                                      key_columns |-> ImportedKeyColumns(rows)])

InitPage == NoCall /\ (NewSession \/ DefaultPresetLoaded)

NextPage ==
    \/ ChangeMapping
    \/ SavePreset
    \/ ApplySelectedPreset
    \/ ApplyImportedPreset
    \/ ClearAllMappings

SpecPage == InitPage /\ [][NextPage]_vars

\* C24: every stored preset holds the column mappings and the key columns it
\* was saved or imported with, whatever was saved, applied, imported,
\* changed, removed or cleared since.
C24_PresetsKeepWhatWasSavedAsStated ==
    \A n \in DOMAIN mapping_presets :
        /\ heap[mapping_presets[n].column_mappings] = preset_saved[n].column_mappings
        /\ heap[mapping_presets[n].key_columns] = preset_saved[n].key_columns

====
